---- MODULE Spec2Model ----
(***************************************************************************)
(* Procure-to-Pay: the approval state machine of PurchaseRequestViewSet    *)
(* (backend/procurement/views.py) over the PurchaseRequest and Approval     *)
(* tables (backend/procurement/models.py), with the purchase-order          *)
(* synthesis and the receipt validation of DocumentProcessor                *)
(* (backend/procurement/document_processor.py).                             *)
(*                                                                         *)
(* The database is PostgreSQL at READ COMMITTED: select_for_update() takes  *)
(* the row lock of one PurchaseRequest until the enclosing                  *)
(* transaction.atomic() block ends, an UPDATE of a locked row waits for     *)
(* the lock, and Model.save() without update_fields writes every column of  *)
(* the row from the in-memory instance.                                     *)
(***************************************************************************)
EXTENDS Integers, Sequences, FiniteSets, Bags, TLC

\* ---------------------------------------------------------------- bounds
NumProcs == 2
MaxCalls == 3
\* longest text, over TextAlphabet, given to the field extraction
MaxTextLen == 3
\* most line items of a PO or of a receipt given to validate_receipt
MaxItems == 2
\* last reading of the clock, in clock ticks, and most PO syntheses that are
\* followed
MaxTicks == 4
MaxOrders == 3

\* Two purchase requests, one for each way perform_create leaves a request:
\* request 1 with the data extracted from its proforma, request 2 without
\* proforma data. Requests share no state but the workers.
Requests == {1, 2}
Procs == 1..NumProcs
NoProc == 0

\* ------------------------------------------------------------ users, roles
Users == {"staff", "approver1", "approver2"}
NoUser == "None"

\* user.profile.role
profile_role(u) == u

\* PurchaseRequest.created_by: every request is created by the staff user
created_by(r) == "staff"

\* Optional values: None is the empty tuple, a value v is <<v>>
None == << >>
Some(v) == <<v>>

\* dict.get(key, default)
Get(d, k, default) == IF k \in DOMAIN d THEN d[k] ELSE default

\* Python truthiness of a number or of a possibly missing number
Falsy(n) == n = 0

\* ----------------------------------------------------------- text values
\* Texts are sequences of characters, so that str.lower() and the
\* substring test `a in b` are computed and not assumed.
UpperCase ==
  <<"A", "B", "C", "D", "E", "F", "G", "H", "I", "J", "K", "L", "M",
    "N", "O", "P", "Q", "R", "S", "T", "U", "V", "W", "X", "Y", "Z">>
LowerCase ==
  <<"a", "b", "c", "d", "e", "f", "g", "h", "i", "j", "k", "l", "m",
    "n", "o", "p", "q", "r", "s", "t", "u", "v", "w", "x", "y", "z">>
UpperLower ==
  [c \in {UpperCase[i] : i \in 1..26} |-> LowerCase[CHOOSE i \in 1..26 : UpperCase[i] = c]]

\* str.lower()
lower(s) == [i \in 1..Len(s) |-> IF s[i] \in DOMAIN UpperLower THEN UpperLower[s[i]] ELSE s[i]]

\* Python `a in b` on strings
IsSubstring(a, b) ==
  \E i \in 0..(Len(b) - Len(a)) : \A j \in 1..Len(a) : b[i + j] = a[j]

UnknownVendor == <<"U", "n", "k", "n", "o", "w", "n", " ", "V", "e", "n", "d", "o", "r">>
TBDVendor == <<"T", "B", "D", " ", "-", " ", "V", "e", "n", "d", "o", "r">>
ABCSuppliesLtd == <<"A", "B", "C", " ", "S", "u", "p", "p", "l", "i", "e", "s", " ", "L", "t", "d">>
ABCSupplies == <<"A", "B", "C", " ", "S", "u", "p", "p", "l", "i", "e", "s">>
XYZCorp == <<"X", "Y", "Z", " ", "C", "o", "r", "p">>
DemoVendorLtd == <<"D", "e", "m", "o", " ", "V", "e", "n", "d", "o", "r", " ", "L", "t", "d">>

\* ------------------------------------------------- request construction
\* PurchaseRequest.amount, in cents
request_amount(r) == 100000

\* proforma_data stored by perform_create: request 1 was created with a
\* proforma whose extraction found vendor, total and one line item, request
\* 2 without a proforma (proforma_data stays NULL)
ExtractedProforma ==
  [vendor_name |-> ABCSuppliesLtd, total_amount |-> 220000, currency |-> "USD",
   items |-> <<[name |-> "item", quantity |-> 1, unit_price |-> 220000]>>]

perform_create(r) ==
  [status |-> "PENDING",
   approved_by |-> NoUser,
   proforma_data |-> IF r = 1 THEN Some(ExtractedProforma) ELSE None,
   purchase_order_data |-> None,
   receipt |-> None,
   receipt_validation_data |-> None]

\* Receipts a requester may upload, given by what _extract_text_from_file
\* and the field extraction make of them: vendor, total (in cents) and number
\* of line items, or readable = FALSE when processing the file raises
ReceiptFiles ==
  { [readable |-> TRUE, vendor_name |-> ABCSupplies, total_amount |-> 220000, items |-> 1],
    [readable |-> TRUE, vendor_name |-> XYZCorp, total_amount |-> 236000, items |-> 2],
    [readable |-> FALSE, vendor_name |-> << >>, total_amount |-> 0, items |-> 0] }

VARIABLES
  purchase_requests,  \* the PurchaseRequest table: request id -> committed row
  approvals,          \* the Approval table: a bag of committed rows
  row_lock,           \* request id -> process holding its row lock, or NoProc
  pc,                 \* process -> position in the handler it runs
  call,               \* process -> the call it serves: operation, request, user
  pr,                 \* process -> the PurchaseRequest instance it holds in memory
  response,           \* the response sent in the last step, with its call
  calls,              \* number of handler invocations started so far
  validation,         \* a call of DocumentProcessor.validate_receipt on its own:
                      \* its arguments and its result
  extraction,         \* a call of DocumentProcessor.extract_proforma_data on
                      \* its own: its argument and its result
  now,                \* datetime.now(), in clock ticks
  synthesis           \* the PO data that calls of
                      \* DocumentProcessor.generate_purchase_order_data returned,
                      \* each with the request it was made for

vars == <<purchase_requests, approvals, row_lock, pc, call, pr, response, calls,
          validation, extraction, now, synthesis>>

NoCall == [op |-> "none", request |-> 0, user |-> NoUser, receipt |-> None]

\* a response: the call it answers and the outcome
Response(c, code) == [op |-> c.op, request |-> c.request, user |-> c.user, code |-> code]

\* no response is sent in this step
NoResponse == Response(NoCall, "none")

\* the database and the workers after the requests were created
InitViewSet ==
  /\ purchase_requests = [r \in Requests |-> perform_create(r)]
  /\ approvals = EmptyBag
  /\ row_lock = [r \in Requests |-> NoProc]
  /\ pc = [p \in Procs |-> "idle"]
  /\ call = [p \in Procs |-> NoCall]
  /\ pr = [p \in Procs |-> None]
  /\ response = NoResponse
  /\ calls = 0

\* the clock and the PO syntheses followed on their own: none
NoSynthesis ==
  /\ now = 0
  /\ synthesis = << >>

Init ==
  /\ InitViewSet
  /\ validation = None
  /\ extraction = None
  /\ NoSynthesis

\* ---------------------------------------------------------- Approval table
\* every review is recorded as an approval
Approval_always_approved(r, u, lvl, approved) ==
  [request |-> r, approver |-> u, level |-> lvl, approved |-> TRUE]

Approval(r, u, lvl, approved) ==
  [request |-> r, approver |-> u, level |-> lvl, approved |-> approved]

\* number of rows of a table that satisfy a predicate
RECURSIVE CountRows(_, _)
CountRows(table, rows) ==
  IF rows = {} THEN 0
  ELSE LET a == CHOOSE x \in rows : TRUE
       IN  CopiesIn(a, table) + CountRows(table, rows \ {a})

\* the lookup by (request, level) never finds a row
filter_request_level_finds_nothing(table, r, lvl) == {}

\* Approval.objects.filter(request=r, level=lvl)
filter_request_level(table, r, lvl) ==
  {a \in BagToSet(table) : a.request = r /\ a.level = lvl}

\* the lookup of approved rows of a level finds the rows of every request
filter_level_approved(table, r, lvl) ==
  {a \in BagToSet(table) : a.level = lvl /\ a.approved = TRUE}

\* Approval.objects.filter(request=r, level=lvl, approved=True)
filter_request_level_approved(table, r, lvl) ==
  {a \in BagToSet(table) : a.request = r /\ a.level = lvl /\ a.approved = TRUE}

\* Meta.unique_together = ("request", "level"): the insert is refused with
\* IntegrityError when a row with the same pair exists
unique_together(table, a) == filter_request_level(table, a.request, a.level) = {}

\* Approval.objects.create(...)
objects_create(table, a) == table (+) SetToBag({a})

\* ------------------------------------------------------------ serializers
\* ApproveRequestSerializer.validate
ApproveRequestSerializer_validate(instance) == instance.status = "PENDING"

\* RejectRequestSerializer.validate
RejectRequestSerializer_validate(instance) == instance.status = "PENDING"

\* ReceiptUploadSerializer.validate
ReceiptUploadSerializer_validate(instance) == instance.status = "APPROVED"

\* --------------------------------------------------- DocumentProcessor
\* DocumentProcessor.generate_purchase_order_data, without the fields read
\* from the clock (po_number, delivery_date, created_date) and the constant
\* buyer address and terms
generate_purchase_order_data(proforma_data, request_data) ==
  [vendor_name |-> Get(proforma_data, "vendor_name", UnknownVendor),
   buyer_contact |-> request_data.created_by,
   vendor_email |-> Get(proforma_data, "vendor_email", << >>),
   items |-> Get(proforma_data, "items", << >>),
   subtotal |-> Get(proforma_data, "total_amount", 0),
   tax_amount |-> 0,
   total_amount |-> Get(proforma_data, "total_amount", 0),
   currency |-> Get(proforma_data, "currency", "USD"),
   status |-> "ISSUED"]

\* |a - b|
Abs(n) == IF n < 0 THEN -n ELSE n

\* decimal.Decimal: _extract_total_amount returns its result as a Decimal
Decimal(n) == [decimal |-> n]

\* json.dumps(value) as JSONField prepares a value for the database, with no
\* encoder: the Decimal total inside receipt_data raises TypeError
JSONField_raises(value) ==
  \E k \in DOMAIN value : k = "receipt_data" /\ "decimal" \in DOMAIN value[k].total_amount

\* the receipt vendor is only looked for inside the PO vendor
check_vendor_one_way(validation_result, receipt_data, purchase_order_data) ==
  LET po_vendor == lower(Get(purchase_order_data, "vendor_name", << >>))
      receipt_vendor == lower(receipt_data.vendor_name)
  IN  IF /\ po_vendor # << >>
         /\ receipt_vendor # << >>
         /\ ~IsSubstring(receipt_vendor, po_vendor)
      THEN [validation_result EXCEPT !.discrepancies = Append(@, "vendor_name"),
                                     !.is_valid = FALSE]
      ELSE validation_result

\* validate_receipt, lines 156-167: the vendor check
check_vendor(validation_result, receipt_data, purchase_order_data) ==
  LET po_vendor == lower(Get(purchase_order_data, "vendor_name", << >>))
      receipt_vendor == lower(receipt_data.vendor_name)
  IN  IF /\ po_vendor # << >>
         /\ receipt_vendor # << >>
         /\ ~IsSubstring(po_vendor, receipt_vendor)
         /\ ~IsSubstring(receipt_vendor, po_vendor)
      THEN [validation_result EXCEPT !.discrepancies = Append(@, "vendor_name"),
                                     !.is_valid = FALSE]
      ELSE validation_result

\* a variance of exactly 5% is over the tolerance
variance_over_tolerance_inclusive(po_total, receipt_total) ==
  100 * Abs(po_total - receipt_total) >= 5 * po_total

\* validate_receipt, lines 174-175: variance = abs(po_total - receipt_total)
\* / po_total and variance > 0.05, for a positive po_total; the quotient is
\* compared without being computed (amounts are in cents)
variance_over_tolerance(po_total, receipt_total) ==
  100 * Abs(po_total - receipt_total) > 5 * po_total

\* validate_receipt, lines 169-183: the total amount check
check_total_amount(validation_result, receipt_data, purchase_order_data) ==
  LET po_total == Get(purchase_order_data, "total_amount", 0)
      receipt_total == receipt_data.total_amount.decimal
  IN  IF /\ po_total > 0
         /\ receipt_total > 0
         /\ variance_over_tolerance(po_total, receipt_total)
      THEN [validation_result EXCEPT !.discrepancies = Append(@, "total_amount"),
                                     !.is_valid = FALSE]
      ELSE validation_result

\* a different number of items makes the receipt invalid
check_item_count_invalidates(validation_result, receipt_data, purchase_order_data) ==
  IF Len(Get(purchase_order_data, "items", << >>)) # receipt_data.items
  THEN [validation_result EXCEPT !.discrepancies = Append(@, "item_count"),
                                 !.is_valid = FALSE]
  ELSE validation_result

\* validate_receipt, lines 185-195: the item count check (receipt_data.items
\* is the number of extracted line items)
check_item_count(validation_result, receipt_data, purchase_order_data) ==
  IF Len(Get(purchase_order_data, "items", << >>)) # receipt_data.items
  THEN [validation_result EXCEPT !.discrepancies = Append(@, "item_count")]
  ELSE validation_result

\* DocumentProcessor.validate_receipt, lines 148-197: the comparison of the
\* extracted receipt_data with the PO, one check after the other on the
\* result that starts valid and without discrepancies
compare_receipt(receipt_data, purchase_order_data) ==
  LET validation_result ==
        [is_valid |-> TRUE, discrepancies |-> << >>, receipt_data |-> receipt_data]
      vendor_checked == check_vendor(validation_result, receipt_data, purchase_order_data)
      total_checked == check_total_amount(vendor_checked, receipt_data, purchase_order_data)
  IN  check_item_count(total_checked, receipt_data, purchase_order_data)

\* DocumentProcessor.validate_receipt: extraction of the receipt, then the
\* comparison; any exception (an unreadable file, a PO that is None and has
\* no get) becomes the error result of lines 199-204
validate_receipt(receipt_file, purchase_order_data) ==
  IF receipt_file.readable /\ purchase_order_data # None
  THEN compare_receipt([vendor_name |-> receipt_file.vendor_name,
                        items |-> receipt_file.items,
                        total_amount |-> Decimal(receipt_file.total_amount)],
                       purchase_order_data[1])
  ELSE [is_valid |-> FALSE, error |-> TRUE, discrepancies |-> <<"processing">>]

\* ------------------------------------------------ finishing a handler
\* The handler of p answers call c with outcome code: the worker is free
\* again
Return(p, c, code) ==
  /\ pc' = [pc EXCEPT ![p] = "idle"]
  /\ call' = [call EXCEPT ![p] = NoCall]
  /\ pr' = [pr EXCEPT ![p] = None]
  /\ response' = Response(c, code)
  /\ UNCHANGED <<validation, extraction, now, synthesis>>

\* The handler of p goes on to position next without answering yet
Continue(p, c, next) ==
  /\ pc' = [pc EXCEPT ![p] = next]
  /\ call' = [call EXCEPT ![p] = c]
  /\ response' = NoResponse
  /\ UNCHANGED <<validation, extraction, now, synthesis>>

\* Model.save(): UPDATE of every column of row r from the instance
save(r, instance) ==
  purchase_requests' = [purchase_requests EXCEPT ![r] = instance]

\* the two roles are mapped to each other's level
level_of_swapped(u) == IF profile_role(u) = "approver1" THEN 2 ELSE 1

\* level = 1 if profile.role == 'approver1' else 2
level_of(u) == IF profile_role(u) = "approver1" THEN 1 ELSE 2

\* ------------------------------------------- PurchaseRequestViewSet helpers
\* The calls the URL router (procurement/urls.py) can dispatch. The user of
\* generate_purchase_order is not read by its handler: the requester stands
\* for any authenticated user there.
Calls ==
  [op : {"approve", "reject"}, request : Requests, user : Users, receipt : {None}]
  \cup [op : {"generate_purchase_order"}, request : Requests, user : {"staff"},
        receipt : {None}]
  \cup [op : {"submit_receipt"}, request : Requests, user : {"staff"},
        receipt : {None} \cup {Some(f) : f \in ReceiptFiles}]
  \cup [op : {"submit_receipt"}, request : Requests, user : {"approver1"},
        receipt : {Some(CHOOSE f \in ReceiptFiles : TRUE)}]

\* A free worker p accepts one more HTTP request
accept(p) ==
  /\ pc[p] = "idle"
  /\ calls < MaxCalls
  /\ calls' = calls + 1

\* the status check under the lock is missing
not_pending_unchecked(pr_locked) == FALSE

\* pr_locked.status != 'PENDING' (approve line 259, reject line 332)
not_pending(pr_locked) == pr_locked.status # "PENDING"

\* the duplicate check of the view is missing
existing_approval_unchecked(table, r, level) == {}

\* existing_approval = Approval.objects.filter(request, level).first()
existing_approval(table, r, level) == filter_request_level(table, r, level)

\* the status check of generate_purchase_order is missing
not_approved_unchecked(instance) == FALSE

\* pr.status != 'APPROVED' (generate_purchase_order line 544)
not_approved(instance) == instance.status # "APPROVED"

\* the attributes of a PurchaseRequest instance: the fields and relations
\* that models.py declares
PurchaseRequest_fields ==
  {"id", "title", "description", "amount", "status", "created_by", "approved_by",
   "created_at", "updated_at", "proforma", "purchase_order", "receipt",
   "proforma_data", "purchase_order_data", "receipt_validation_data",
   "po_generated_at", "approvals", "items"}

\* the attributes of pr that generate_purchase_order reads to build
\* request_data (lines 556-561)
request_data_attributes == {"created_by", "department", "urgency", "justification"}

\* the handler stores a PO for whatever request it is called on
generate_purchase_order_stores_always(instance) == "POGenerated"

\* generate_purchase_order, lines 544-579, by its outcome for the instance it
\* read: the 400 of the status check, the 500 of the except branch when
\* building request_data raises AttributeError, or the 200 after pr.save()
generate_purchase_order_response(instance) ==
  IF not_approved(instance) THEN "InvalidState"
  ELSE IF ~(request_data_attributes \subseteq PurchaseRequest_fields) THEN "GenerationFailed"
  ELSE "POGenerated"

\* The proforma dict loaded at the start of PO generation: {} when the
\* field is NULL or empty
load_proforma_data(instance) ==
  IF instance.proforma_data # None /\ instance.proforma_data[1] # << >>
  THEN instance.proforma_data[1]
  ELSE << >>

\* PurchaseRequestViewSet._auto_generate_po, when nothing raises: the
\* instance as it is saved. The fallback assignments write into the dict
\* held by the instance when that dict is not empty.
_auto_generate_po(r, instance) ==
  LET loaded == load_proforma_data(instance)
      proforma_data ==
        IF Falsy(Get(loaded, "total_amount", 0))
        THEN ("total_amount" :> request_amount(r)) @@ ("vendor_name" :> TBDVendor)
             @@ ("currency" :> "USD") @@ loaded
        ELSE loaded
      request_data == [created_by |-> created_by(r)]
      po_data == generate_purchase_order_data(proforma_data, request_data)
  IN  [instance EXCEPT
         !.proforma_data = IF loaded # << >> THEN Some(proforma_data) ELSE @,
         !.purchase_order_data = Some(po_data)]

\* the failure of PO generation undoes the status written before it
auto_generate_po_raised_rolls_back(pr_locked, saved) == pr_locked

\* approve, lines 283-287, when _auto_generate_po raises: the exception is
\* logged, and the row stays as pr_locked.save() of line 280 wrote it
auto_generate_po_raised(pr_locked, saved) == saved

\* approve, lines 278-279: the instance as the final approval changes it
final_approval(pr_locked, user) ==
  [pr_locked EXCEPT !.status = "APPROVED", !.approved_by = user]

\* ---------------------------------------------------------------- approve
\* approve, lines 246-255: authorization, the unlocked read of the request
\* and ApproveRequestSerializer.is_valid
approve_begin(p, c) ==
  /\ c.op = "approve"
  /\ accept(p)
  /\ UNCHANGED <<purchase_requests, approvals, row_lock>>
  /\ IF profile_role(c.user) \notin {"approver1", "approver2"}
     THEN Return(p, c, "Forbidden")
     ELSE IF ~ApproveRequestSerializer_validate(purchase_requests[c.request])
     THEN Return(p, c, "StateConflict")
     ELSE /\ Continue(p, c, "approve_lock")
          /\ UNCHANGED pr

\* select_for_update and UPDATE never wait
lock_free_always(r, p) == TRUE

\* the row lock of r can be taken by p
lock_free(r, p) == row_lock[r] = NoProc

\* PurchaseRequest.objects.select_for_update().get(pk=pr.pk) inside
\* transaction.atomic(): waits for the row lock, then reads the row
select_for_update(p) ==
  /\ pc[p] \in {"approve_lock", "reject_lock"}
  /\ lock_free(call[p].request, p)
  /\ row_lock' = [row_lock EXCEPT ![call[p].request] = p]
  /\ pr' = [pr EXCEPT ![p] = Some(purchase_requests[call[p].request])]
  /\ Continue(p, call[p], IF pc[p] = "approve_lock" THEN "approve_locked" ELSE "reject_locked")
  /\ UNCHANGED <<purchase_requests, approvals, calls>>

\* the transaction of p ends (commit or rollback): its row lock is released
release(p) ==
  row_lock' = [row_lock EXCEPT ![call[p].request] = IF @ = p THEN NoProc ELSE @]

\* approve, lines 259-290: the body of the atomic block, which commits when
\* the block is left by a return
approve_locked(p) ==
  /\ pc[p] = "approve_locked"
  /\ UNCHANGED calls
  /\ LET r == call[p].request
         user == call[p].user
         level == level_of(user)
         pr_locked == pr[p][1]
         new == Approval(r, user, level, TRUE)
     IN
     /\ release(p)
     /\ IF not_pending(pr_locked)
        THEN /\ Return(p, call[p], "StateConflict")
             /\ UNCHANGED <<purchase_requests, approvals>>
        ELSE IF existing_approval(approvals, r, level) # {}
        THEN /\ Return(p, call[p], "DuplicateReview")
             /\ UNCHANGED <<purchase_requests, approvals>>
        ELSE IF ~unique_together(approvals, new)
        THEN /\ Return(p, call[p], "IntegrityError")
             /\ UNCHANGED <<purchase_requests, approvals>>
        ELSE
          /\ approvals' = objects_create(approvals, new)
          /\ IF level = 2
             THEN IF filter_request_level_approved(approvals', r, 1) = {}
                  THEN /\ Return(p, call[p], "OrderingViolation")
                       /\ UNCHANGED purchase_requests
                  ELSE LET saved == final_approval(pr_locked, user)
                       IN  /\ \E generated \in BOOLEAN :
                                save(r, IF generated THEN _auto_generate_po(r, saved)
                                        ELSE auto_generate_po_raised(pr_locked, saved))
                           /\ Return(p, call[p], "APPROVED")
             ELSE /\ Return(p, call[p], "PENDING")
                  /\ UNCHANGED purchase_requests

\* ----------------------------------------------------------------- reject
\* reject, lines 321-328
reject_begin(p, c) ==
  /\ c.op = "reject"
  /\ accept(p)
  /\ UNCHANGED <<purchase_requests, approvals, row_lock>>
  /\ IF profile_role(c.user) \notin {"approver1", "approver2"}
     THEN Return(p, c, "Forbidden")
     ELSE IF ~RejectRequestSerializer_validate(purchase_requests[c.request])
     THEN Return(p, c, "StateConflict")
     ELSE /\ Continue(p, c, "reject_lock")
          /\ UNCHANGED pr

\* reject, lines 332-344
reject_locked(p) ==
  /\ pc[p] = "reject_locked"
  /\ UNCHANGED calls
  /\ LET r == call[p].request
         user == call[p].user
         lvl == level_of(user)
         pr_locked == pr[p][1]
         new == Approval(r, user, lvl, FALSE)
     IN
     /\ release(p)
     /\ IF not_pending(pr_locked)
        THEN /\ Return(p, call[p], "StateConflict")
             /\ UNCHANGED <<purchase_requests, approvals>>
        ELSE IF existing_approval(approvals, r, lvl) # {}
        THEN /\ Return(p, call[p], "DuplicateReview")
             /\ UNCHANGED <<purchase_requests, approvals>>
        ELSE IF ~unique_together(approvals, new)
        THEN /\ Return(p, call[p], "IntegrityError")
             /\ UNCHANGED <<purchase_requests, approvals>>
        ELSE /\ approvals' = objects_create(approvals, new)
             /\ save(r, [pr_locked EXCEPT !.status = "REJECTED"])
             /\ Return(p, call[p], "REJECTED")

\* ------------------------------------------------ generate_purchase_order
\* generate_purchase_order, lines 542-547: the unlocked read and the status
\* check
generate_purchase_order_begin(p, c) ==
  /\ c.op = "generate_purchase_order"
  /\ accept(p)
  /\ UNCHANGED <<purchase_requests, approvals, row_lock>>
  /\ IF generate_purchase_order_response(purchase_requests[c.request]) = "InvalidState"
     THEN Return(p, c, "InvalidState")
     ELSE /\ Continue(p, c, "generate_purchase_order_save")
          /\ pr' = [pr EXCEPT ![p] = Some(purchase_requests[c.request])]

\* generate_purchase_order, lines 549-579: synthesis and pr.save(), or the
\* 500 response of the except branch
generate_purchase_order_save(p) ==
  /\ pc[p] = "generate_purchase_order_save"
  /\ UNCHANGED <<approvals, row_lock, calls>>
  /\ LET r == call[p].request
         instance == pr[p][1]
         request_data == [created_by |-> created_by(r)]
         po_data == generate_purchase_order_data(load_proforma_data(instance), request_data)
     IN  IF generate_purchase_order_response(instance) = "POGenerated"
         THEN /\ lock_free(r, p)
              /\ save(r, [instance EXCEPT !.purchase_order_data = Some(po_data)])
              /\ Return(p, call[p], "POGenerated")
         ELSE /\ UNCHANGED purchase_requests
              /\ Return(p, call[p], "GenerationFailed")

\* ---------------------------------------------------------- submit_receipt
\* the PO check of submit_receipt is missing
no_purchase_order_unchecked(instance) == FALSE

\* not pr.purchase_order_data (submit_receipt line 392)
no_purchase_order(instance) == instance.purchase_order_data = None

\* submit_receipt, lines 387-400: the unlocked read, the owner check, the PO
\* and file checks and ReceiptUploadSerializer.is_valid
submit_receipt_begin(p, c) ==
  /\ c.op = "submit_receipt"
  /\ accept(p)
  /\ UNCHANGED <<purchase_requests, approvals, row_lock>>
  /\ LET r == c.request
         instance == purchase_requests[r]
     IN  IF c.user # created_by(r)
         THEN Return(p, c, "Forbidden")
         ELSE IF no_purchase_order(instance)
         THEN Return(p, c, "NoPurchaseOrder")
         ELSE IF c.receipt = None
         THEN Return(p, c, "NoReceipt")
         ELSE IF ~ReceiptUploadSerializer_validate(instance)
         THEN Return(p, c, "NotApproved")
         ELSE /\ Continue(p, c, "submit_receipt_save")
              /\ pr' = [pr EXCEPT ![p] = Some([instance EXCEPT !.receipt = c.receipt])]

\* submit_receipt, line 401: serializer.save() writes the row with the
\* receipt
submit_receipt_save(p) ==
  /\ pc[p] = "submit_receipt_save"
  /\ lock_free(call[p].request, p)
  /\ save(call[p].request, pr[p][1])
  /\ Continue(p, call[p], "submit_receipt_validate")
  /\ UNCHANGED <<approvals, row_lock, pr, calls>>

\* submit_receipt, lines 403-420: validation against the PO of the instance
\* and the second save, which raises (an unhandled TypeError, a 500 response)
\* when the result cannot be encoded for the JSONField
submit_receipt_validate(p) ==
  /\ pc[p] = "submit_receipt_validate"
  /\ UNCHANGED <<approvals, row_lock, calls>>
  /\ LET updated_pr == pr[p][1]
         validation_result == validate_receipt(updated_pr.receipt[1],
                                               updated_pr.purchase_order_data)
     IN  IF JSONField_raises(validation_result)
         THEN /\ UNCHANGED purchase_requests
              /\ Return(p, call[p], "ServerError")
         ELSE /\ lock_free(call[p].request, p)
              /\ save(call[p].request,
                      [updated_pr EXCEPT !.receipt_validation_data = Some(validation_result)])
              /\ Return(p, call[p],
                        IF validation_result.is_valid THEN "ReceiptValid" ELSE "ReceiptMismatch")

\* -------------------------------------------------------------------- Next
Next ==
  \/ \E p \in Procs, c \in Calls : approve_begin(p, c)
  \/ \E p \in Procs : select_for_update(p)
  \/ \E p \in Procs : approve_locked(p)
  \/ \E p \in Procs, c \in Calls : reject_begin(p, c)
  \/ \E p \in Procs : reject_locked(p)
  \/ \E p \in Procs, c \in Calls : generate_purchase_order_begin(p, c)
  \/ \E p \in Procs : generate_purchase_order_save(p)
  \/ \E p \in Procs, c \in Calls : submit_receipt_begin(p, c)
  \/ \E p \in Procs : submit_receipt_save(p)
  \/ \E p \in Procs : submit_receipt_validate(p)

Spec == Init /\ [][Next]_vars

\* ------------------------------- the ViewSet with the proforma and update
\* bool(pr.proforma): request 1 was created with a proforma file
has_proforma(r) == r = 1

\* the demo data extract_proforma_data returns when reading the stored file
\* raises (amounts in cents)
DemoProforma ==
  [vendor_name |-> DemoVendorLtd, total_amount |-> 10000, currency |-> "USD",
   items |-> <<[name |-> "Demo Item", quantity |-> 1, unit_price |-> 10000]>>]

\* PurchaseRequestUpdateSerializer.validate
PurchaseRequestUpdateSerializer_validate(instance) == instance.status = "PENDING"

\* process_proforma, lines 459-473: the unlocked read and the proforma check
\* (_validate_file_security accepts the stored file)
process_proforma_begin(p, c) ==
  /\ c.op = "process_proforma"
  /\ accept(p)
  /\ UNCHANGED <<purchase_requests, approvals, row_lock>>
  /\ IF ~has_proforma(c.request)
     THEN Return(p, c, "NoProforma")
     ELSE /\ Continue(p, c, "process_proforma_save")
          /\ pr' = [pr EXCEPT ![p] = Some(purchase_requests[c.request])]

\* process_proforma, lines 477-497: the extraction, which yields the
\* extracted fields or the demo data, and pr.save(), which writes every
\* column of the instance read at line 459
process_proforma_save(p) ==
  /\ pc[p] = "process_proforma_save"
  /\ lock_free(call[p].request, p)
  /\ UNCHANGED <<approvals, row_lock, calls>>
  /\ \E extracted_data \in {ExtractedProforma, DemoProforma} :
       save(call[p].request, [pr[p][1] EXCEPT !.proforma_data = Some(extracted_data)])
  /\ Return(p, call[p], "ProformaProcessed")

\* UpdateModelMixin.update with PurchaseRequestUpdateSerializer: the
\* unlocked read of get_object and is_valid. The request carries title,
\* description or amount, which are no columns of the model.
update_begin(p, c) ==
  /\ c.op = "update"
  /\ accept(p)
  /\ UNCHANGED <<purchase_requests, approvals, row_lock>>
  /\ IF ~PurchaseRequestUpdateSerializer_validate(purchase_requests[c.request])
     THEN Return(p, c, "NotPending")
     ELSE /\ Continue(p, c, "update_save")
          /\ pr' = [pr EXCEPT ![p] = Some(purchase_requests[c.request])]

\* perform_update and PurchaseRequestUpdateSerializer.update: instance.save()
\* writes every column of the instance read by get_object
update_save(p) ==
  /\ pc[p] = "update_save"
  /\ lock_free(call[p].request, p)
  /\ UNCHANGED <<approvals, row_lock, calls>>
  /\ save(call[p].request, pr[p][1])
  /\ Return(p, call[p], "Updated")

\* the calls of the requester that process the proforma or update a request
CallsOfRequester ==
  [op : {"process_proforma", "update"}, request : Requests, user : {"staff"},
   receipt : {None}]

\* the requests were created and approver1 has approved each at level 1
InitFull ==
  /\ purchase_requests = [r \in Requests |-> perform_create(r)]
  /\ approvals = SetToBag({Approval(r, "approver1", 1, TRUE) : r \in Requests})
  /\ row_lock = [r \in Requests |-> NoProc]
  /\ pc = [p \in Procs |-> "idle"]
  /\ call = [p \in Procs |-> NoCall]
  /\ pr = [p \in Procs |-> None]
  /\ response = NoResponse
  /\ calls = 0
  /\ validation = None
  /\ extraction = None
  /\ NoSynthesis

NextFull ==
  \/ Next
  \/ \E p \in Procs, c \in CallsOfRequester : process_proforma_begin(p, c)
  \/ \E p \in Procs : process_proforma_save(p)
  \/ \E p \in Procs, c \in CallsOfRequester : update_begin(p, c)
  \/ \E p \in Procs : update_save(p)

SpecFull == InitFull /\ [][NextFull]_vars

\* ------------------------------------------- the ViewSet with destroy
\* no row with this pk is in the PurchaseRequest table
NoRow ==
  [status |-> "DoesNotExist",
   approved_by |-> NoUser,
   proforma_data |-> None,
   purchase_order_data |-> None,
   receipt |-> None,
   receipt_validation_data |-> None]

\* get_object_or_404(PurchaseRequest, pk=pk) and get_object() find the row
\* of call c: get_queryset shows the requester the own requests and the
\* approvers every request
get_object(c) == purchase_requests[c.request] # NoRow

\* the handler of call c looks for the row: approve and reject do after
\* their role check (lines 248-251, 323-326), submit_receipt (line 387) and
\* destroy do first
looks_up(c) ==
  \/ c.op \in {"destroy", "submit_receipt"}
  \/ c.op \in {"approve", "reject"} /\ profile_role(c.user) \in {"approver1", "approver2"}

\* the lookup raises Http404
get_object_404(p, c) ==
  /\ looks_up(c)
  /\ ~get_object(c)
  /\ accept(p)
  /\ UNCHANGED <<purchase_requests, approvals, row_lock>>
  /\ Return(p, c, "NotFound")

\* approve, lines 246-255, without the Http404 of the lookup
approve_object(p, c) == (looks_up(c) => get_object(c)) /\ approve_begin(p, c)

\* reject, lines 321-328, without the Http404 of the lookup
reject_object(p, c) == (looks_up(c) => get_object(c)) /\ reject_begin(p, c)

\* submit_receipt, lines 387-400, without the Http404 of the lookup. Its
\* two saves are Model.save(): an UPDATE by pk and, when that finds no row,
\* an INSERT of the instance.
submit_receipt_object(p, c) == (looks_up(c) => get_object(c)) /\ submit_receipt_begin(p, c)

\* select_for_update().get(pk=pr.pk) finds the row
select_for_update_row(p) ==
  /\ pc[p] \in {"approve_lock", "reject_lock"}
  /\ purchase_requests[call[p].request] # NoRow
  /\ select_for_update(p)

\* select_for_update().get(pk=pr.pk) finds no row: DoesNotExist is raised
\* inside the atomic block and not caught
select_for_update_raises(p) ==
  /\ pc[p] \in {"approve_lock", "reject_lock"}
  /\ purchase_requests[call[p].request] = NoRow
  /\ UNCHANGED <<purchase_requests, approvals, row_lock, calls>>
  /\ Return(p, call[p], "ServerError")

\* perform_destroy, lines 203-211, by its outcome: PermissionDenied for a
\* staff user who is not the creator, else instance.delete()
perform_destroy(instance, user) ==
  IF profile_role(user) = "staff" /\ instance.created_by # user THEN "Forbidden"
  ELSE "Deleted"

\* DestroyModelMixin.destroy: get_object and the checks of perform_destroy
destroy_begin(p, c) ==
  /\ c.op = "destroy"
  /\ get_object(c)
  /\ accept(p)
  /\ UNCHANGED <<purchase_requests, approvals, row_lock>>
  /\ LET instance == [status |-> purchase_requests[c.request].status,
                      created_by |-> created_by(c.request)]
     IN  IF perform_destroy(instance, c.user) # "Deleted"
         THEN Return(p, c, perform_destroy(instance, c.user))
         ELSE /\ Continue(p, c, "destroy_delete")
              /\ UNCHANGED pr

\* instance.delete(): the DELETE of the row waits for its row lock and takes
\* the Approval rows of the request with it (on_delete=CASCADE)
destroy_delete(p) ==
  /\ pc[p] = "destroy_delete"
  /\ lock_free(call[p].request, p)
  /\ purchase_requests' = [purchase_requests EXCEPT ![call[p].request] = NoRow]
  /\ approvals' = SetToBag({a \in BagToSet(approvals) : a.request # call[p].request})
  /\ UNCHANGED <<row_lock, calls>>
  /\ Return(p, call[p], "Deleted")

\* DELETE /requests/{pk}/ by any user
CallsDestroy == [op : {"destroy"}, request : Requests, user : Users, receipt : {None}]

\* approve, reject, submit_receipt and destroy
NextDestroy ==
  \/ \E p \in Procs, c \in Calls \cup CallsDestroy : get_object_404(p, c)
  \/ \E p \in Procs, c \in Calls : approve_object(p, c)
  \/ \E p \in Procs, c \in Calls : reject_object(p, c)
  \/ \E p \in Procs : select_for_update_row(p)
  \/ \E p \in Procs : select_for_update_raises(p)
  \/ \E p \in Procs : approve_locked(p)
  \/ \E p \in Procs : reject_locked(p)
  \/ \E p \in Procs, c \in Calls : submit_receipt_object(p, c)
  \/ \E p \in Procs : submit_receipt_save(p)
  \/ \E p \in Procs : submit_receipt_validate(p)
  \/ \E p \in Procs, c \in CallsDestroy : destroy_begin(p, c)
  \/ \E p \in Procs : destroy_delete(p)

SpecDestroy == InitFull /\ [][NextDestroy]_vars

\* ------------------------------------- validate_receipt as a function
\* Vendor names on a PO or found on a receipt: none, a name, a name
\* contained in it, the same in lower case, and an unrelated name
VendorNames == {<< >>, ABCSuppliesLtd, ABCSupplies, lower(ABCSupplies), XYZCorp}

\* PO totals in cents: none and 1000.00
POTotals == {0, 100000}

\* receipt totals in cents, around 5% below and above 1000.00
ReceiptTotals == {0, 94000, 94999, 95000, 104000, 105000, 105001, 106000}

\* the purchase_order_data dicts given to validate_receipt
PurchaseOrders ==
  [vendor_name : VendorNames, total_amount : POTotals,
   items : {[i \in 1..n |-> "item"] : n \in 0..MaxItems}]

\* the receipts given to validate_receipt, as ReceiptFiles; the vendor name
\* _extract_vendor_name finds is never empty
Receipts ==
  [readable : {TRUE}, vendor_name : VendorNames \ {<< >>}, total_amount : ReceiptTotals,
   items : 0..MaxItems]
  \cup {[readable |-> FALSE, vendor_name |-> << >>, total_amount |-> 0, items |-> 0]}

InitValidate ==
  /\ InitViewSet
  /\ extraction = None
  /\ NoSynthesis
  /\ validation \in {Some(v) : v \in [purchase_order_data : PurchaseOrders,
                                       receipt_file : Receipts,
                                       validation_result : {None}]}

\* document_processor.validate_receipt(receipt_file, purchase_order_data)
DocumentProcessor_validate_receipt ==
  /\ validation # None
  /\ validation[1].validation_result = None
  /\ validation' = Some([validation[1] EXCEPT !.validation_result =
                           Some(validate_receipt(validation[1].receipt_file,
                                                 Some(validation[1].purchase_order_data)))])
  /\ UNCHANGED <<purchase_requests, approvals, row_lock, pc, call, pr, response,
                 calls, extraction, now, synthesis>>

NextValidate == DocumentProcessor_validate_receipt

SpecValidate == InitValidate /\ [][NextValidate]_vars

\* -------------------------------- extract_proforma_data as a function
Whitespace == {" ", "\n"}
IsLetter(c) == \E i \in 1..26 : c = UpperCase[i] \/ c = LowerCase[i]
Digits == <<"0", "1", "2", "3", "4", "5", "6", "7", "8", "9">>
IsDigit(c) == \E i \in 1..10 : Digits[i] = c
DigitValue(c) == (CHOOSE i \in 1..10 : Digits[i] = c) - 1

\* the character class [a-zA-Z\s&,.-]
IsNameChar(c) == IsLetter(c) \/ c \in Whitespace \/ c \in {"&", ",", ".", "-"}

SetMin(S) == CHOOSE x \in S : \A y \in S : x <= y
SetMax(S) == CHOOSE x \in S : \A y \in S : x >= y

\* str.strip()
strip(s) ==
  LET kept == {i \in 1..Len(s) : s[i] \notin Whitespace}
  IN  IF kept = {} THEN << >> ELSE SubSeq(s, SetMin(kept), SetMax(kept))

\* word matches at position i of text under re.IGNORECASE
MatchesAt(text, i, word) ==
  /\ i + Len(word) - 1 <= Len(text)
  /\ lower(SubSeq(text, i, i + Len(word) - 1)) = lower(word)

\* last position of the line that holds position k
EndOfLine(text, k) ==
  LET breaks == {n \in k..Len(text) : text[n] = "\n"}
  IN  IF breaks = {} THEN Len(text) ELSE SetMin(breaks) - 1

\* FROM|VENDOR|SUPPLIER|COMPANY
VendorLabels ==
  {<<"f", "r", "o", "m">>, <<"v", "e", "n", "d", "o", "r">>,
   <<"s", "u", "p", "p", "l", "i", "e", "r">>, <<"c", "o", "m", "p", "a", "n", "y">>}

\* Ltd|LLC|Inc|Corp|Company|Co\.
LegalSuffixes ==
  {<<"l", "t", "d">>, <<"l", "l", "c">>, <<"i", "n", "c">>, <<"c", "o", "r", "p">>,
   <<"c", "o", "m", "p", "a", "n", "y">>, <<"c", "o", ".">>}

\* first match of (?:FROM|VENDOR|SUPPLIER|COMPANY)[:]\s*([^\n\r]+): the rest
\* of the line after the label and the white space behind it. The text is
\* stripped, so white space is never the last thing in it.
labelled_vendor(text) ==
  LET group_start(i) ==
        {k \in i..Len(text) :
           /\ text[k] \notin Whitespace
           /\ \A n \in i..(k - 1) : text[n] \in Whitespace}
      starts == {i \in 1..Len(text) :
                   \E label \in VendorLabels :
                     /\ MatchesAt(text, i, label \o <<":">>)
                     /\ group_start(i + Len(label) + 1) # {}}
  IN  IF starts = {} THEN None
      ELSE LET i == SetMin(starts)
               label == CHOOSE l \in VendorLabels : MatchesAt(text, i, l \o <<":">>)
               k == SetMin(group_start(i + Len(label) + 1))
           IN  Some(strip(SubSeq(text, k, EndOfLine(text, k))))

\* first match of ([A-Z][a-zA-Z\s&,.-]+(?:Ltd|LLC|Inc|Corp|Company|Co\.)):
\* a letter, the longest run of name characters that a suffix follows, and
\* the suffix
suffixed_vendor(text) ==
  LET suffix_starts(i) ==
        {j \in (i + 2)..Len(text) :
           /\ \A n \in (i + 1)..(j - 1) : IsNameChar(text[n])
           /\ \E suffix \in LegalSuffixes : MatchesAt(text, j, suffix)}
      starts == {i \in 1..Len(text) : IsLetter(text[i]) /\ suffix_starts(i) # {}}
  IN  IF starts = {} THEN None
      ELSE LET i == SetMin(starts)
               j == SetMax(suffix_starts(i))
               suffix == CHOOSE x \in LegalSuffixes : MatchesAt(text, j, x)
           IN  Some(strip(SubSeq(text, i, j + Len(suffix) - 1)))

\* a single name character after the first letter is enough
first_line_vendor_any_length(text) ==
  LET starts == {i \in 1..Len(text) :
                   /\ i = 1 \/ text[i - 1] = "\n"
                   /\ IsLetter(text[i])
                   /\ i + 1 <= Len(text)
                   /\ IsNameChar(text[i + 1])}
  IN  IF starts = {} THEN None
      ELSE LET i == SetMin(starts)
               e == SetMax({n \in (i + 1)..Len(text) :
                              /\ n <= i + 50
                              /\ \A k \in (i + 1)..n : IsNameChar(text[k])})
           IN  Some(strip(SubSeq(text, i, e)))

\* first match of ^([A-Z][a-zA-Z\s&,.-]{10,50}) under re.MULTILINE: at the
\* start of a line, a letter and the 10 to 50 name characters behind it
first_line_vendor(text) ==
  LET starts == {i \in 1..Len(text) :
                   /\ i = 1 \/ text[i - 1] = "\n"
                   /\ IsLetter(text[i])
                   /\ i + 10 <= Len(text)
                   /\ \A k \in (i + 1)..(i + 10) : IsNameChar(text[k])}
  IN  IF starts = {} THEN None
      ELSE LET i == SetMin(starts)
               e == SetMax({n \in (i + 10)..Len(text) :
                              /\ n <= i + 50
                              /\ \A k \in (i + 1)..n : IsNameChar(text[k])})
           IN  Some(strip(SubSeq(text, i, e)))

\* DocumentProcessor._extract_vendor_name: the first pattern that matches
_extract_vendor_name(text) ==
  IF labelled_vendor(text) # None THEN labelled_vendor(text)[1]
  ELSE IF suffixed_vendor(text) # None THEN suffixed_vendor(text)[1]
  ELSE IF first_line_vendor(text) # None THEN first_line_vendor(text)[1]
  ELSE UnknownVendor

\* last digit of the run of digits that starts at position i
DigitsEnd(text, i) ==
  SetMax({e \in i..Len(text) : \A n \in i..e : IsDigit(text[n])})

\* \.\d{2} follows position e
HasDecimals(text, e) ==
  /\ e + 3 <= Len(text)
  /\ text[e + 1] = "."
  /\ IsDigit(text[e + 2])
  /\ IsDigit(text[e + 3])

\* the number written by the digits of text from i to e
RECURSIVE IntValue(_, _, _)
IntValue(text, i, e) ==
  IF e < i THEN 0 ELSE 10 * IntValue(text, i, e - 1) + DigitValue(text[e])

\* Decimal of the match of \d+(?:,\d{3})*(?:\.\d{2})? at the digit at
\* position i, in cents (the texts hold no comma, so no thousands group is
\* matched)
Amount(text, i) ==
  LET e == DigitsEnd(text, i)
  IN  100 * IntValue(text, i, e)
      + (IF HasDecimals(text, e)
         THEN 10 * DigitValue(text[e + 2]) + DigitValue(text[e + 3]) ELSE 0)

\* TOTAL|AMOUNT|SUM
AmountLabels ==
  {<<"t", "o", "t", "a", "l">>, <<"a", "m", "o", "u", "n", "t">>, <<"s", "u", "m">>}

\* matches of (?:TOTAL|AMOUNT|SUM)[:]\s*\$?(\d+(?:,\d{3})*(?:\.\d{2})?)
labelled_amounts(text) ==
  LET number_start(i) ==
        {k \in i..Len(text) :
           /\ IsDigit(text[k])
           /\ \E d \in {k - 1, k} :
                /\ d >= i
                /\ \A n \in i..(d - 1) : text[n] \in Whitespace
                /\ d = k \/ text[d] = "$"}
  IN  {Amount(text, k) : k \in UNION {number_start(i + Len(label) + 1) :
         <<i, label>> \in {x \in (1..Len(text)) \X AmountLabels :
                             MatchesAt(text, x[1], x[2] \o <<":">>)}}}

\* matches of \$(\d+(?:,\d{3})*(?:\.\d{2})?)
dollar_amounts(text) ==
  {Amount(text, i + 1) : i \in {n \in 1..(Len(text) - 1) :
                                  text[n] = "$" /\ IsDigit(text[n + 1])}}

\* matches of (\d+(?:,\d{3})*\.\d{2})(?:\s*USD|$): a number with two decimals
\* before the currency code or at the end of the text. A match that starts
\* inside another one is smaller than it.
decimal_amounts(text) ==
  LET followed(e) ==
        \/ e = Len(text)
        \/ e = Len(text) - 1 /\ text[Len(text)] = "\n"
        \/ \E k \in (e + 1)..Len(text) :
             /\ \A n \in (e + 1)..(k - 1) : text[n] \in Whitespace
             /\ MatchesAt(text, k, <<"u", "s", "d">>)
  IN  {Amount(text, i) : i \in {n \in 1..Len(text) :
         /\ IsDigit(text[n])
         /\ HasDecimals(text, DigitsEnd(text, n))
         /\ followed(DigitsEnd(text, n) + 3)}}

\* an amount behind TOTAL, AMOUNT or SUM is taken before any other
_extract_total_amount_labelled_first(text) ==
  LET amounts == labelled_amounts(text) \cup dollar_amounts(text) \cup decimal_amounts(text)
  IN  IF labelled_amounts(text) # {} THEN SetMax(labelled_amounts(text))
      ELSE IF amounts = {} THEN 0 ELSE SetMax(amounts)

\* DocumentProcessor._extract_total_amount: the largest amount found, in
\* cents, or Decimal('0.00')
_extract_total_amount(text) ==
  LET amounts == labelled_amounts(text) \cup dollar_amounts(text) \cup decimal_amounts(text)
  IN  IF amounts = {} THEN 0 ELSE SetMax(amounts)

\* text.split('\n'): the lines of the text, each by its first and its last
\* position (an empty line ends before it starts)
split_lines(text) ==
  LET breaks == {n \in 1..Len(text) : text[n] = "\n"} \cup {0, Len(text) + 1}
  IN  {<<b + 1, SetMin({n \in breaks : n > b}) - 1>> : b \in breaks \ {Len(text) + 1}}

\* re.search of (\d+(?:\.\d+)?)\s+(.{10,50})\s+(\d+(?:\.\d{2})?) finds a match
\* in the line from s to e: a digit, white space up to k, 10 to 50
\* characters up to m, white space, and a digit
item_pattern_matches(text, s, e) ==
  \E a \in s..e, b \in s..e :
    /\ IsDigit(text[a])
    /\ IsDigit(text[b])
    /\ b - a >= 13
    /\ text[a + 1] \in Whitespace
    /\ text[b - 1] \in Whitespace
    /\ \E k \in (a + 1)..(b - 12) :
         /\ \A n \in (a + 1)..k : text[n] \in Whitespace
         /\ \E m \in (k + 10)..(b - 2) :
              /\ m - k <= 50
              /\ \A n \in (m + 1)..(b - 1) : text[n] \in Whitespace

\* the generic item of _extract_line_items, lines 308-318
generic_item(total) ==
  [name |-> "Generic Item (extracted from total)",
   quantity |-> 1, unit_price |-> total, total_price |-> total]

\* items are taken from matching lines only
_extract_line_items_matched_only(text) ==
  LET matching == {l \in split_lines(text) : item_pattern_matches(text, l[1], l[2])}
  IN  {[name |-> "line item", line |-> l] : l \in matching}

\* DocumentProcessor._extract_line_items: one item for every line that
\* matches the item pattern (given by its line; quantity, description and
\* price of the match are not followed), or else the generic item when a
\* total is found. The order of the items is the order of the lines.
_extract_line_items(text) ==
  LET matching == {l \in split_lines(text) : item_pattern_matches(text, l[1], l[2])}
      total == _extract_total_amount(text)
  IN  IF matching # {} THEN {[name |-> "line item", line |-> l] : l \in matching}
      ELSE IF total > 0 THEN {generic_item(total)}
      ELSE {}

\* currencies = ['USD', 'EUR', 'RWF', 'KES', 'UGX'], each with its letters
currencies ==
  <<[code |-> "USD", letters |-> <<"U", "S", "D">>],
    [code |-> "EUR", letters |-> <<"E", "U", "R">>],
    [code |-> "RWF", letters |-> <<"R", "W", "F">>],
    [code |-> "KES", letters |-> <<"K", "E", "S">>],
    [code |-> "UGX", letters |-> <<"U", "G", "X">>]>>

\* str.upper() on the letters of the texts
upper(s) ==
  [i \in 1..Len(s) |->
     IF \E n \in 1..26 : LowerCase[n] = s[i]
     THEN UpperCase[CHOOSE n \in 1..26 : LowerCase[n] = s[i]] ELSE s[i]]

\* the euro sign is looked for before the dollar sign
glyph_currency_euro_first(text) ==
  IF \E i \in 1..Len(text) : text[i] = "€" THEN "EUR"
  ELSE "USD"

\* _extract_currency, lines 353-358: the currency of the text that names no
\* currency code
glyph_currency(text) ==
  IF \E i \in 1..Len(text) : text[i] = "$" THEN "USD"
  ELSE IF \E i \in 1..Len(text) : text[i] = "€" THEN "EUR"
  ELSE "USD"

\* DocumentProcessor._extract_currency
_extract_currency(text) ==
  LET found == {n \in 1..Len(currencies) : IsSubstring(currencies[n].letters, upper(text))}
  IN  IF found # {} THEN currencies[SetMin(found)].code
      ELSE glyph_currency(text)

\* DocumentProcessor.extract_proforma_data: the fields found in the text of
\* the file, or the demo data of the except branch when reading the file
\* raises
extract_proforma_data(file) ==
  IF file.readable
  THEN [vendor_name |-> _extract_vendor_name(file.text),
        items |-> _extract_line_items(file.text),
        total_amount |-> _extract_total_amount(file.text),
        currency |-> _extract_currency(file.text),
        demo_mode |-> FALSE]
  ELSE [vendor_name |-> DemoVendorLtd,
        items |-> {[name |-> "Demo Item", quantity |-> 1, unit_price |-> 10000,
                    total_price |-> 10000]},
        total_amount |-> 10000,
        currency |-> "USD",
        demo_mode |-> TRUE]

\* the characters of the short texts
TextAlphabet == {"a", "1", "$", "€", ".", ":", " "}

\* the text _extract_text_from_image returns when the OCR fails
MockText ==
  <<"D", "E", "M", "O", " ", "P", "R", "O", "F", "O", "R", "M", "A", "\n",
    "V", "e", "n", "d", "o", "r", ":", " ", "D", "e", "m", "o", " ", "C",
    "o", "m", "p", "a", "n", "y", " ", "L", "t", "d", "\n", "T", "o", "t",
    "a", "l", ":", " ", "$", "1", "0", "0", ".", "0", "0", " ", "U", "S",
    "D", "\n", "I", "t", "e", "m", "s", ":", " ", "1", "x", " ", "D", "e",
    "m", "o", " ", "I", "t", "e", "m", " ", "@", " ", "$", "1", "0", "0",
    ".", "0", "0">>

\* longer texts: ten letters,
\*   eleven letters,
\*   the minimal content of test_ocr_fallback_handling,
\*   a labelled vendor,
\*   a legal-entity suffix,
\*   a capitalized phrase,
\*   a labelled amount with a cut decimal,
\*   an amount followed by the currency, the mock text,
\*   a labelled total below another amount,
\*   a line item with a price and one without decimals,
\*   two line items under a heading,
\*   two currency codes, the later of the list first,
\*   the codes RWF and, in mixed case before UGX, KES,
\*   an amount in euro and amounts in dollar and in euro
SampleTexts ==
  {<<"a", "a", "a", "a", "a", "a", "a", "a", "a", "a">>,
   <<"a", "a", "a", "a", "a", "a", "a", "a", "a", "a", "a">>,
   <<"A", "B", "C">>,
   <<"f", "r", "o", "m", ":", " ", "x">>,
   <<"a", "b", "L", "t", "d">>,
   <<"L", "o", "r", "e", "m", " ", "i", "p", "s", "u", "m", " ", "d", "o",
     "l", "o", "r">>,
   <<"T", "o", "t", "a", "l", ":", " ", "$", "1", ".", "5", "0">>,
   <<"1", "2", ".", "5", "0", " ", "u", "s", "d">>,
   MockText,
   <<"T", "o", "t", "a", "l", ":", " ", "$", "5", ".", "0", "0", "\n",
     "$", "2", "0", ".", "0", "0">>,
   <<"2", " ", "O", "f", "f", "i", "c", "e", " ", "C", "h", "a", "i", "r", "s",
     " ", "1", "5", "0", ".", "0", "0">>,
   <<"2", " ", "O", "f", "f", "i", "c", "e", " ", "C", "h", "a", "i", "r", "s",
     " ", "1", "5", "0">>,
   <<"I", "t", "e", "m", "s", "\n",
     "1", " ", "a", "a", "a", "a", "a", "a", "a", "a", "a", "a", " ", "5", "\n",
     "3", " ", "a", "a", "a", "a", "a", "a", "a", "a", "a", "a", " ", "7">>,
   <<"9", " ", "e", "u", "r", " ", "o", "r", " ", "u", "s", "d">>,
   <<"5", " ", "r", "w", "f">>,
   <<"K", "e", "s", " ", "1", " ", "u", "g", "x">>,
   <<"€", "5", ".", "0", "0">>,
   <<"$", "5", " ", "o", "r", " ", "€", "4">>}

\* the texts _extract_text_from_file returns: stripped of white space
Texts ==
  {t \in UNION {[1..n -> TextAlphabet] : n \in 0..MaxTextLen} : strip(t) = t}
  \cup SampleTexts

\* the files given to extract_proforma_data
ProformaFiles ==
  [readable : {TRUE}, text : Texts] \cup {[readable |-> FALSE, text |-> << >>]}

InitExtract ==
  /\ InitViewSet
  /\ validation = None
  /\ NoSynthesis
  /\ extraction \in {Some([file |-> f, extracted_data |-> None]) : f \in ProformaFiles}

\* document_processor.extract_proforma_data(file)
DocumentProcessor_extract_proforma_data ==
  /\ extraction # None
  /\ extraction[1].extracted_data = None
  /\ extraction' = Some([extraction[1] EXCEPT !.extracted_data =
                           Some(extract_proforma_data(extraction[1].file))])
  /\ UNCHANGED <<purchase_requests, approvals, row_lock, pc, call, pr, response,
                 calls, validation, now, synthesis>>

NextExtract == DocumentProcessor_extract_proforma_data

SpecExtract == InitExtract /\ [][NextExtract]_vars

\* --------------------------- generate_purchase_order_data and the clock
\* resolution of the model's clock: datetime.now() is read in half seconds
TicksPerSecond == 2

\* datetime.strftime('%Y%m%d%H%M%S'): the time to the second, the fraction
\* of the second is dropped
strftime(t) == t \div TicksPerSecond

\* DocumentProcessor._generate_po_number
_generate_po_number(t) == <<"PO-", strftime(t)>>

\* the PO data generate_purchase_order_data returns at time t for a request
\* as perform_create left it
purchase_order_data_at(r, t) ==
  [po_number |-> _generate_po_number(t),
   po_data |-> generate_purchase_order_data(load_proforma_data(perform_create(r)),
                                            [created_by |-> created_by(r)])]

InitSynthesis ==
  /\ InitViewSet
  /\ validation = None
  /\ extraction = None
  /\ NoSynthesis

\* time passes
tick ==
  /\ now < MaxTicks
  /\ now' = now + 1
  /\ UNCHANGED <<purchase_requests, approvals, row_lock, pc, call, pr, response,
                 calls, validation, extraction, synthesis>>

\* document_processor.generate_purchase_order_data(proforma_data,
\* request_data), called for request r by a handler
DocumentProcessor_generate_purchase_order_data(r) ==
  /\ Len(synthesis) < MaxOrders
  /\ synthesis' = Append(synthesis, [request |-> r] @@ purchase_order_data_at(r, now))
  /\ UNCHANGED <<purchase_requests, approvals, row_lock, pc, call, pr, response,
                 calls, validation, extraction, now>>

NextSynthesis ==
  \/ tick
  \/ \E r \in Requests : DocumentProcessor_generate_purchase_order_data(r)

SpecSynthesis == InitSynthesis /\ [][NextSynthesis]_vars

\* ------------------------------------------------ vocabulary of the claims
\* the committed Approval rows of request r at level lvl
RowsAt(table, r, lvl) == {a \in BagToSet(table) : a.request = r /\ a.level = lvl}

\* how many Approval rows request r has at level lvl
NumApprovals(table, r, lvl) == CountRows(table, RowsAt(table, r, lvl))

\* request r has an Approval row at level lvl with the given decision
HasApproval(table, r, lvl, decision) ==
  \E a \in RowsAt(table, r, lvl) : a.approved = decision

\* the level at which user u reviews
ReviewLevel(u) == IF u = "approver1" THEN 1 ELSE 2

\* this step answers a call op of an approver at level lvl, on request r
Answers(op, r, lvl) ==
  /\ response'.op = op
  /\ response'.request = r
  /\ response'.user \in {"approver1", "approver2"}
  /\ ReviewLevel(response'.user) = lvl

\* the committed status of request r
Status(r) == purchase_requests[r].status

\* ------------------------------------------------------------------ claims
\* C1: in every reachable state, under any interleaving of concurrent
\* approve and reject calls, each request has at most one Approval row per
\* level.
AtMostOneApprovalPerLevel ==
  \A r \in Requests, lvl \in {1, 2} : NumApprovals(approvals, r, lvl) <= 1

\* A second reviewer of the same level passed the unlocked checks and waits
\* for the row lock while the first reviewer's Approval is already committed.
C1_Witness ==
  \E p \in Procs :
    /\ pc[p] \in {"approve_lock", "reject_lock"}
    /\ NumApprovals(approvals, call[p].request, ReviewLevel(call[p].user)) = 1

\* C2: in every reachable state a request has a level-2 Approval with
\* decision APPROVED only if it has a level-1 Approval with decision
\* APPROVED.
Level2ApprovedOnlyAfterLevel1 ==
  \A r \in Requests :
    HasApproval(approvals, r, 2, TRUE) => HasApproval(approvals, r, 1, TRUE)

\* C3: an approve at level 2 that is answered while the request is PENDING
\* and has no level-1 APPROVED row is answered with OrderingViolation,
\* whatever calls came before.
Level2BeforeLevel1Fails ==
  [][\A r \in Requests :
       ( /\ Answers("approve", r, 2)
         /\ Status(r) = "PENDING"
         /\ ~HasApproval(approvals, r, 1, TRUE) )
       => response'.code = "OrderingViolation"]_vars

\* C4: once the status of a request is APPROVED or REJECTED, no step of
\* approve, reject, generate_purchase_order or submit_receipt changes it.
StatusIsTerminal ==
  [][\A r \in Requests :
       Status(r) # "PENDING" => purchase_requests'[r].status = Status(r)]_vars

\* A receipt was submitted and validated for an APPROVED request: handlers
\* have saved the whole row after the status became terminal.
C4_Witness ==
  \E r \in Requests :
    /\ Status(r) = "APPROVED"
    /\ purchase_requests[r].receipt_validation_data # None

\* C5: a successful approve at level 1 records the level-1 Approval and
\* leaves the status PENDING; an approve at level 2 that then finds the
\* level-1 approval and no level-2 row sets the status to APPROVED; the
\* status is never APPROVED without a level-2 approval.
TwoStepApproval ==
  [][\A r \in Requests :
       /\ (Answers("approve", r, 1) /\ response'.code = "PENDING")
          => /\ ~HasApproval(approvals, r, 1, TRUE)
             /\ HasApproval(approvals', r, 1, TRUE)
             /\ purchase_requests'[r].status = "PENDING"
       /\ ( /\ Answers("approve", r, 2)
            /\ Status(r) = "PENDING"
            /\ HasApproval(approvals, r, 1, TRUE)
            /\ NumApprovals(approvals, r, 2) = 0 )
          => /\ response'.code = "APPROVED"
             /\ purchase_requests'[r].status = "APPROVED"
       /\ purchase_requests'[r].status = "APPROVED"
          => HasApproval(approvals', r, 2, TRUE)]_vars

\* The level-2 approver has just driven a request with both approvals to
\* APPROVED.
C5_Witness ==
  /\ response.op = "approve"
  /\ response.code = "APPROVED"
  /\ Status(response.request) = "APPROVED"
  /\ HasApproval(approvals, response.request, 1, TRUE)
  /\ HasApproval(approvals, response.request, 2, TRUE)

\* C6: a reject that is answered while the request is PENDING and has no
\* Approval at the caller's level succeeds whether or not level 1 has
\* approved, adds exactly one Approval with decision false at that level and
\* sets the status to REJECTED in the same step.
RejectAtEitherLevel ==
  [][\A r \in Requests, lvl \in {1, 2} :
       ( /\ Answers("reject", r, lvl)
         /\ Status(r) = "PENDING"
         /\ NumApprovals(approvals, r, lvl) = 0 )
       => /\ response'.code = "REJECTED"
          /\ approvals' = approvals (+) SetToBag({[request |-> r,
                                                   approver |-> response'.user,
                                                   level |-> lvl,
                                                   approved |-> FALSE]})
          /\ purchase_requests'[r].status = "REJECTED"]_vars

\* A request was just rejected at level 2 although level 1 never reviewed
\* it.
C6_Witness ==
  /\ response.op = "reject"
  /\ response.code = "REJECTED"
  /\ Status(response.request) = "REJECTED"
  /\ HasApproval(approvals, response.request, 2, FALSE)
  /\ NumApprovals(approvals, response.request, 1) = 0

\* the positions inside the atomic block of approve and reject
InTransaction(p) == pc[p] \in {"approve_locked", "reject_locked"}

\* C7: the locked sections of two approve/reject calls on one request never
\* overlap. While a call is inside its atomic block it holds the row lock of
\* its request, the row it read is the committed row, and no other handler
\* changes that row or the Approval rows of that request; so the calls on one
\* request take effect one after the other.
TransitionsAreSerial ==
  /\ [](\A p \in Procs :
          InTransaction(p)
          => /\ row_lock[call[p].request] = p
             /\ pr[p] = Some(purchase_requests[call[p].request])
             /\ \A q \in Procs \ {p} :
                  InTransaction(q) => call[q].request # call[p].request)
  /\ [][\A p \in Procs :
          (InTransaction(p) /\ pc'[p] = pc[p])
          => /\ purchase_requests'[call[p].request] = purchase_requests[call[p].request]
             /\ \A lvl \in {1, 2} :
                  RowsAt(approvals', call[p].request, lvl)
                    = RowsAt(approvals, call[p].request, lvl)]_vars

\* One reviewer is inside the atomic block while another reviewer of the
\* same request waits for the row lock.
C7_Witness ==
  \E p, q \in Procs :
    /\ InTransaction(p)
    /\ pc[q] \in {"approve_lock", "reject_lock"}
    /\ call[q].request = call[p].request

\* C8: an approve or reject of an approver that is answered, or passes a
\* status check, while the request is not PENDING is answered with
\* StateConflict, creates no Approval and leaves the row of the request
\* (status, final approver, PO data) unchanged.
StateConflictOnNonPending ==
  [][\A r \in Requests, lvl \in {1, 2} :
       Status(r) # "PENDING"
       => /\ (Answers("approve", r, lvl) \/ Answers("reject", r, lvl))
             => /\ response'.code = "StateConflict"
                /\ UNCHANGED <<purchase_requests, approvals>>
          /\ \A p \in Procs :
               (pc[p] = "idle" /\ call'[p].request = r)
               => pc'[p] \notin {"approve_lock", "reject_lock"}]_vars

\* A reviewer who found the request PENDING before the lock was answered
\* StateConflict, or a reviewer was turned away from a request that is not
\* PENDING.
C8_Witness ==
  /\ response.op \in {"approve", "reject"}
  /\ response.code = "StateConflict"
  /\ Status(response.request) # "PENDING"

\* C9 as stated: an approve or reject at a level at which the request
\* already has an Approval is answered with DuplicateReview and changes
\* nothing.
DuplicateReviewOnExistingApproval ==
  [][\A r \in Requests, lvl \in {1, 2} :
       ( /\ Answers("approve", r, lvl) \/ Answers("reject", r, lvl)
         /\ NumApprovals(approvals, r, lvl) >= 1 )
       => /\ response'.code = "DuplicateReview"
          /\ UNCHANGED <<purchase_requests, approvals>>]_vars

\* C9 amended: an approve or reject on a PENDING request at a level at which
\* the request already has an Approval is answered with DuplicateReview and
\* changes nothing.
DuplicateReviewOnPendingRequest ==
  [][\A r \in Requests, lvl \in {1, 2} :
       ( /\ Answers("approve", r, lvl) \/ Answers("reject", r, lvl)
         /\ Status(r) = "PENDING"
         /\ NumApprovals(approvals, r, lvl) >= 1 )
       => /\ response'.code = "DuplicateReview"
          /\ UNCHANGED <<purchase_requests, approvals>>]_vars

\* A second review at a level was just turned away from a request that is
\* still PENDING.
C9_Witness ==
  /\ response.code = "DuplicateReview"
  /\ Status(response.request) = "PENDING"
  /\ NumApprovals(approvals, response.request, ReviewLevel(response.user)) = 1

\* C10: generate_purchase_order on a request that is not APPROVED returns
\* InvalidState and stores nothing, and in every reachable state a request
\* with PO data is APPROVED.
PurchaseOrderOnlyWhenApproved ==
  /\ [](\A r \in Requests :
          purchase_requests[r].purchase_order_data # None => Status(r) = "APPROVED")
  /\ [][\A r \in Requests :
          ( /\ response'.op = "generate_purchase_order"
            /\ response'.request = r
            /\ Status(r) # "APPROVED" )
          => /\ response'.code = "InvalidState"
             /\ UNCHANGED <<purchase_requests, approvals>>]_vars

\* PO generation was just refused for one request while another request
\* holds a PO.
C10_Witness ==
  /\ response.op = "generate_purchase_order"
  /\ response.code = "InvalidState"
  /\ \E r \in Requests : purchase_requests[r].purchase_order_data # None

\* the two answers of submit_receipt that report InvalidState: no PO (line
\* 393) and not APPROVED (ReceiptUploadSerializer)
InvalidState == {"NoPurchaseOrder", "NotApproved"}

ApprovalSurvivesFailedGeneration ==
  [][\A r \in Requests :
       ( /\ Answers("approve", r, 2)
         /\ Status(r) = "PENDING"
         /\ HasApproval(approvals, r, 1, TRUE)
         /\ NumApprovals(approvals, r, 2) = 0
         /\ purchase_requests'[r].purchase_order_data = None )
       => /\ response'.code = "APPROVED"
          /\ purchase_requests'[r].status = "APPROVED"
          /\ purchase_requests'[r].approved_by = response'.user
          /\ approvals' = approvals (+) SetToBag({[request |-> r,
                                                   approver |-> response'.user,
                                                   level |-> 2,
                                                   approved |-> TRUE]})]_vars

\* A final approve was just answered APPROVED and left the request approved
\* without PO data.
C12_Witness ==
  /\ response.op = "approve"
  /\ response.code = "APPROVED"
  /\ Status(response.request) = "APPROVED"
  /\ purchase_requests[response.request].approved_by = response.user
  /\ HasApproval(approvals, response.request, 2, TRUE)
  /\ purchase_requests[response.request].purchase_order_data = None

\* the placeholders of a PO synthesized without extracted vendor and total
IsPlaceholderPO(po_data) ==
  /\ po_data.vendor_name = UnknownVendor
  /\ po_data.total_amount = 0
  /\ po_data.currency = "USD"

\* C13: for an APPROVED request without extracted data, GeneratePurchaseOrder
\* always succeeds, and the PO it stores, like the PO stored by the final
\* approval of such a request, carries the placeholders "Unknown Vendor", 0
\* and "USD".
SynthesisFillsPlaceholders ==
  [][\A r \in Requests :
       purchase_requests[r].proforma_data = None
       => /\ ( /\ response'.op = "generate_purchase_order"
               /\ response'.request = r
               /\ Status(r) = "APPROVED" )
             => /\ response'.code = "POGenerated"
                /\ purchase_requests'[r].purchase_order_data # None
                /\ IsPlaceholderPO(purchase_requests'[r].purchase_order_data[1])
          /\ ( /\ response'.op = "approve"
               /\ response'.request = r
               /\ purchase_requests[r].purchase_order_data = None
               /\ purchase_requests'[r].purchase_order_data # None )
             => IsPlaceholderPO(purchase_requests'[r].purchase_order_data[1])]_vars

Validated ==
  /\ validation # None
  /\ validation[1].validation_result # None
  /\ "error" \notin DOMAIN validation[1].validation_result[1]

\* how many discrepancies of a field a result holds
NumDiscrepancies(validation_result, field) ==
  Cardinality({i \in DOMAIN validation_result.discrepancies :
                 validation_result.discrepancies[i] = field})

\* name a occurs inside name b when case is ignored
ContainedIgnoringCase(a, b) ==
  \E i \in 1..(Len(b) - Len(a) + 1) : lower(SubSeq(b, i, i + Len(a) - 1)) = lower(a)

\* C17: validate_receipt records a vendor_name discrepancy, and the result
\* is then invalid, exactly when the PO vendor and the receipt vendor are
\* both non-empty and neither contains the other when case is ignored; the
\* vendor verdict is the same with the two names swapped, and an empty name
\* on either side records nothing.
VendorRuleIsSymmetricSubstring ==
  Validated =>
    LET purchase_order_data == validation[1].purchase_order_data
        receipt_file == validation[1].receipt_file
        result == validation[1].validation_result[1]
        po_vendor == purchase_order_data.vendor_name
        receipt_vendor == receipt_file.vendor_name
        mismatch == /\ po_vendor # << >>
                    /\ receipt_vendor # << >>
                    /\ ~ContainedIgnoringCase(po_vendor, receipt_vendor)
                    /\ ~ContainedIgnoringCase(receipt_vendor, po_vendor)
        swapped == validate_receipt(
                     [receipt_file EXCEPT !.vendor_name = po_vendor],
                     Some([purchase_order_data EXCEPT !.vendor_name = receipt_vendor]))
    IN  /\ NumDiscrepancies(result, "vendor_name") = (IF mismatch THEN 1 ELSE 0)
        /\ mismatch => ~result.is_valid
        /\ NumDiscrepancies(swapped, "vendor_name") = NumDiscrepancies(result, "vendor_name")
        /\ (po_vendor = << >> \/ receipt_vendor = << >>)
           => NumDiscrepancies(result, "vendor_name") = 0

\* "ABC Supplies" on the receipt was accepted for the PO vendor "ABC Supplies
\* Ltd", which it is contained in but does not contain.
C17_Witness ==
  /\ Validated
  /\ validation[1].purchase_order_data.vendor_name = ABCSuppliesLtd
  /\ validation[1].receipt_file.vendor_name = lower(ABCSupplies)
  /\ NumDiscrepancies(validation[1].validation_result[1], "vendor_name") = 0

\* C18: validate_receipt records a total_amount discrepancy, and the result
\* is then invalid, exactly when the PO total and the receipt total are both
\* positive and differ by more than 5% of the PO total: for a PO of 1000.00 a
\* receipt of 1060.00 is flagged, receipts of 1040.00 and 1050.00 are not,
\* and a total of zero on either side is never flagged.
AmountRuleIsFivePercent ==
  Validated =>
    LET po_total == validation[1].purchase_order_data.total_amount
        receipt_total == validation[1].receipt_file.total_amount
        result == validation[1].validation_result[1]
        difference == IF po_total > receipt_total THEN po_total - receipt_total
                      ELSE receipt_total - po_total
        flagged == NumDiscrepancies(result, "total_amount") = 1
    IN  /\ NumDiscrepancies(result, "total_amount") \in {0, 1}
        /\ flagged <=> (po_total > 0 /\ receipt_total > 0 /\ 20 * difference > po_total)
        /\ flagged => ~result.is_valid
        /\ (po_total = 100000 /\ receipt_total = 106000) => flagged
        /\ (po_total = 100000 /\ receipt_total \in {104000, 105000}) => ~flagged
        /\ (po_total = 0 \/ receipt_total = 0) => ~flagged

\* A receipt of exactly 1050.00 was validated against a PO of 1000.00 and its
\* total was not flagged.
C18_Witness ==
  /\ Validated
  /\ validation[1].purchase_order_data.total_amount = 100000
  /\ validation[1].receipt_file.total_amount = 105000
  /\ NumDiscrepancies(validation[1].validation_result[1], "total_amount") = 0

\* C19: in every result without an internal error, is_valid is false if and
\* only if a vendor_name or a total_amount discrepancy was recorded; an
\* item_count discrepancy alone leaves the result valid, and each of the
\* three rules records at most one discrepancy.
ValidityFollowsVendorAndTotal ==
  Validated =>
    LET result == validation[1].validation_result[1]
    IN  /\ ~result.is_valid <=> \/ NumDiscrepancies(result, "vendor_name") > 0
                                \/ NumDiscrepancies(result, "total_amount") > 0
        /\ result.discrepancies = <<"item_count">> => result.is_valid
        /\ \A field \in {"vendor_name", "total_amount", "item_count"} :
             NumDiscrepancies(result, field) <= 1
        /\ \A i \in DOMAIN result.discrepancies :
             result.discrepancies[i] \in {"vendor_name", "total_amount", "item_count"}

\* A receipt that differs from the PO in the number of items only was
\* validated and found valid.
C19_Witness ==
  /\ Validated
  /\ Len(validation[1].purchase_order_data.items) # validation[1].receipt_file.items
  /\ validation[1].validation_result[1].discrepancies = <<"item_count">>
  /\ validation[1].validation_result[1].is_valid

\* ------------------------------------- claims about extract_proforma_data
\* extract_proforma_data returned
Extracted == extraction # None /\ extraction[1].extracted_data # None

\* word occurs in text, in upper or lower case
Occurs(text, word) == \E i \in 1..Len(text) : MatchesAt(text, i, word)

\* a text that holds nothing of an invoice: no digit, no vendor label and no
\* legal-entity suffix; the empty text is one
IsGarbage(text) ==
  /\ \A i \in 1..Len(text) : ~IsDigit(text[i])
  /\ \A label \in VendorLabels : ~Occurs(text, label \o <<":">>)
  /\ \A suffix \in LegalSuffixes : ~Occurs(text, suffix)

\* what extract_proforma_data returned for a file, readable or not, is a
\* document with a vendor name and a total
ExtractIsTotal ==
  Extracted => /\ Len(extraction[1].extracted_data[1].vendor_name) > 0
               /\ extraction[1].extracted_data[1].total_amount >= 0

ExtractedFromText == Extracted /\ extraction[1].file.readable

\* the amounts the three amount patterns match in a text
AmountCandidates(text) ==
  labelled_amounts(text) \cup dollar_amounts(text) \cup decimal_amounts(text)

\* C25: the total extracted from a text is the largest of the amounts that
\* the three amount patterns match in it: it is one of them and none of them
\* is larger; it is 0.00 when no pattern matches.
TotalIsLargestCandidate ==
  ExtractedFromText =>
    LET candidates == AmountCandidates(extraction[1].file.text)
        total_amount == extraction[1].extracted_data[1].total_amount
    IN  /\ candidates = {} => total_amount = 0
        /\ candidates # {} => total_amount \in candidates
        /\ \A amount \in candidates : total_amount >= amount

\* The total 20.00 was extracted from a text whose labelled total is 5.00.
C25_Witness ==
  /\ ExtractedFromText
  /\ labelled_amounts(extraction[1].file.text) = {500}
  /\ dollar_amounts(extraction[1].file.text) = {500, 2000}
  /\ extraction[1].extracted_data[1].total_amount = 2000

\* no line of the text has the shape of a line item
NoLineMatches(text) ==
  \A l \in split_lines(text) : ~item_pattern_matches(text, l[1], l[2])

\* C26: every extracted document with a positive total has at least one
\* item; when no line of the text has the shape of a line item, the items
\* are exactly one synthetic item with quantity 1 and the total as unit
\* price and as total price if the total is not zero, and no item at all if
\* the total is zero.
PositiveTotalHasItems ==
  Extracted =>
    LET extracted_data == extraction[1].extracted_data[1]
        total_amount == extracted_data.total_amount
    IN  /\ total_amount > 0 => extracted_data.items # {}
        /\ (extraction[1].file.readable /\ NoLineMatches(extraction[1].file.text))
           => IF total_amount # 0
              THEN /\ Cardinality(extracted_data.items) = 1
                   /\ \A item \in extracted_data.items :
                        /\ item.quantity = 1
                        /\ item.unit_price = total_amount
                        /\ item.total_price = total_amount
              ELSE extracted_data.items = {}

\* The mock text, in which no line is a line item, was extracted to the
\* total 100.00 and one item of that price.
C26_Witness ==
  /\ ExtractedFromText
  /\ extraction[1].file.text = MockText
  /\ NoLineMatches(MockText)
  /\ extraction[1].extracted_data[1].total_amount = 10000
  /\ Cardinality(extraction[1].extracted_data[1].items) = 1

\* the glyph occurs in the text
HasGlyph(text, glyph) == \E i \in 1..Len(text) : text[i] = glyph

\* the first currency code of the list that occurs in the text when case is
\* ignored, or "none"
FirstCode(text) ==
  LET found == {n \in 1..Len(currencies) :
                  ContainedIgnoringCase(currencies[n].letters, text)}
  IN  IF found = {} THEN "none" ELSE currencies[SetMin(found)].code

\* C27 as stated: the currency extracted from a text is the first of USD,
\* EUR, RWF, KES, UGX that occurs in it when case is ignored; if none
\* occurs, it is EUR whenever the text holds a euro sign and USD otherwise.
CurrencyIsCodeOrEuroSign ==
  ExtractedFromText =>
    LET text == extraction[1].file.text
    IN  extraction[1].extracted_data[1].currency =
          IF FirstCode(text) # "none" THEN FirstCode(text)
          ELSE IF HasGlyph(text, "€") THEN "EUR"
          ELSE "USD"

\* C27, amended: the currency extracted from a text is the first of USD,
\* EUR, RWF, KES, UGX that occurs in it when case is ignored; if none
\* occurs, it is EUR whenever the text holds a euro sign and no dollar sign,
\* and USD otherwise.
CurrencyIsCodeOrLoneEuroSign ==
  ExtractedFromText =>
    LET text == extraction[1].file.text
    IN  extraction[1].extracted_data[1].currency =
          IF FirstCode(text) # "none" THEN FirstCode(text)
          ELSE IF HasGlyph(text, "€") /\ ~HasGlyph(text, "$") THEN "EUR"
          ELSE "USD"

\* A text with a dollar sign and a euro sign and no currency code was
\* extracted to USD.
C27_Witness ==
  /\ ExtractedFromText
  /\ FirstCode(extraction[1].file.text) = "none"
  /\ HasGlyph(extraction[1].file.text, "€")
  /\ HasGlyph(extraction[1].file.text, "$")
  /\ extraction[1].extracted_data[1].currency = "USD"

\* ------------------------------------- claims about the other handlers
\* process p takes a step from one of the positions
Steps(p, positions) == pc[p] \in positions /\ pc'[p] # pc[p]

\* C14: only approve and reject write the status and the final approver: no
\* step of process_proforma, update, generate_purchase_order or
\* submit_receipt, whatever runs beside it, changes or reverts the status or
\* the final approver of a request.
OnlyReviewsWriteStatus ==
  [][\A p \in Procs :
       Steps(p, {"process_proforma_save", "update_save", "generate_purchase_order_save",
                 "submit_receipt_save", "submit_receipt_validate"})
       => \A r \in Requests :
            /\ purchase_requests'[r].status = purchase_requests[r].status
            /\ purchase_requests'[r].approved_by = purchase_requests[r].approved_by]_vars

\* C15: a submit_receipt call, answered with success or failure, leaves the
\* status, the final approver, the PO data and the Approval rows as they
\* are; it writes the receipt and the validation result only.
SubmitReceiptWritesReceiptOnly ==
  [][\A p \in Procs :
       ( \/ Steps(p, {"submit_receipt_save", "submit_receipt_validate"})
         \/ response'.op = "submit_receipt" )
       => /\ approvals' = approvals
          /\ \A r \in Requests :
               /\ purchase_requests'[r].status = purchase_requests[r].status
               /\ purchase_requests'[r].approved_by = purchase_requests[r].approved_by
               /\ purchase_requests'[r].purchase_order_data =
                    purchase_requests[r].purchase_order_data]_vars

\* ------------------------------------------------ claims about PO synthesis
\* C21: no two calls of generate_purchase_order_data, for the same request
\* or for different requests, return the same PO number.
PONumbersAreUnique ==
  \A i, j \in DOMAIN synthesis :
    i # j => synthesis[i].po_number # synthesis[j].po_number

\* --------------------------------------- claims about update and destroy
\* C23: an update is answered with success only while the status of its
\* request is PENDING; an update answered while the request is APPROVED or
\* REJECTED fails and changes nothing, also when a review of the same
\* request was committed while the update was under way.
UpdateOnlyWhilePending ==
  [][\A r \in Requests :
       (response'.op = "update" /\ response'.request = r /\ Status(r) # "PENDING")
       => /\ response'.code = "NotPending"
          /\ UNCHANGED <<purchase_requests, approvals>>]_vars

\* C24: a delete that is answered while the request is APPROVED or REJECTED
\* is refused, and the request and its Approval rows remain.
DeleteOnlyWhilePending ==
  [][\A r \in Requests :
       ( /\ response'.op = "destroy"
         /\ response'.request = r
         /\ Status(r) \in {"APPROVED", "REJECTED"} )
       => /\ response'.code # "Deleted"
          /\ UNCHANGED <<purchase_requests, approvals>>]_vars

\* --------------------------------------- claims about the review slots
\* request r has an Approval row with decision false
HasRejection(table, r) ==
  \E lvl \in {1, 2} : HasApproval(table, r, lvl, FALSE)

\* C28: an approve that fails with OrderingViolation records nothing, so it
\* does not use up the review of its level: a level-2 approve that is
\* answered while the request is PENDING, has its level-1 approval and no
\* rejection is answered APPROVED and makes the request APPROVED, whatever
\* approve calls failed before.
FailedApproveKeepsSlot ==
  [][\A r \in Requests :
       /\ ( /\ response'.op = "approve"
            /\ response'.request = r
            /\ response'.code = "OrderingViolation" )
          => approvals' = approvals
       /\ ( /\ Answers("approve", r, 2)
            /\ Status(r) = "PENDING"
            /\ HasApproval(approvals, r, 1, TRUE)
            /\ ~HasRejection(approvals, r) )
          => /\ response'.code = "APPROVED"
             /\ purchase_requests'[r].status = "APPROVED"]_vars

\* ------------------------------------------- claims about several requests
\* this step is a step of a handler that serves a call on request r
StepOn(r) ==
  \/ \E p \in Procs : pc[p] # "idle" /\ pc'[p] # pc[p] /\ call[p].request = r
  \/ /\ calls' # calls
     /\ \/ response'.request = r
        \/ \E p \in Procs : pc[p] = "idle" /\ pc'[p] # "idle" /\ call'[p].request = r

\* the answer to a review (approve or reject) at level lvl, as the status and
\* the Approval rows of the reviewed request alone determine it
ReviewAnswer(op, r, lvl) ==
  IF Status(r) # "PENDING" THEN "StateConflict"
  ELSE IF NumApprovals(approvals, r, lvl) >= 1 THEN "DuplicateReview"
  ELSE IF op = "reject" THEN "REJECTED"
  ELSE IF lvl = 1 THEN "PENDING"
  ELSE IF HasApproval(approvals, r, 1, TRUE) THEN "APPROVED"
  ELSE "OrderingViolation"

\* C22: a step of approve, reject, generate_purchase_order or submit_receipt
\* on one request leaves the row, the Approval rows and the row lock of every
\* other request as they are, and its answer is determined by the state of
\* its own request: a review is answered as the status and the Approval rows
\* of the reviewed request say, PO generation and a receipt are turned away
\* or pass as the status and the PO data of their request say, whatever the
\* state of the other requests.
RequestsAreIndependent ==
  [][\A r \in Requests :
       StepOn(r)
       => /\ \A q \in Requests \ {r} :
               /\ purchase_requests'[q] = purchase_requests[q]
               /\ row_lock'[q] = row_lock[q]
               /\ \A lvl \in {1, 2} :
                    /\ RowsAt(approvals', q, lvl) = RowsAt(approvals, q, lvl)
                    /\ NumApprovals(approvals', q, lvl) = NumApprovals(approvals, q, lvl)
          /\ \A lvl \in {1, 2} :
               (Answers("approve", r, lvl) \/ Answers("reject", r, lvl))
               => response'.code = ReviewAnswer(response'.op, r, lvl)
          /\ (response'.op = "generate_purchase_order" /\ response'.request = r)
             => response'.code = IF Status(r) # "APPROVED" THEN "InvalidState"
                                 ELSE "GenerationFailed"
          /\ ( /\ response'.op = "submit_receipt"
               /\ response'.request = r
               /\ response'.user = created_by(r)
               /\ calls' # calls )
             => IF purchase_requests[r].purchase_order_data = None
                THEN response'.code = "NoPurchaseOrder"
                ELSE response'.code \in {"NoReceipt", "NotApproved"}]_vars

\* The final approve of one request was just answered APPROVED while the
\* other request, reviewed in between, is REJECTED.
C22_Witness ==
  /\ response.op = "approve"
  /\ response.code = "APPROVED"
  /\ Status(response.request) = "APPROVED"
  /\ \E q \in Requests \ {response.request} :
       /\ Status(q) = "REJECTED"
       /\ HasApproval(approvals, q, 2, FALSE)

\* ------------------------------- claims about status and Approval records
\* C29: in every reachable state an APPROVED request has a level-1 and a
\* level-2 Approval with decision true and no Approval with decision false,
\* and its final approver is set and is the approver of its level-2
\* Approval; a PENDING or REJECTED request has no final approver.
ApprovedHasBothApprovals ==
  \A r \in Requests :
    /\ Status(r) = "APPROVED"
       => /\ HasApproval(approvals, r, 1, TRUE)
          /\ HasApproval(approvals, r, 2, TRUE)
          /\ ~HasRejection(approvals, r)
          /\ purchase_requests[r].approved_by # NoUser
          /\ \A a \in RowsAt(approvals, r, 2) :
               a.approver = purchase_requests[r].approved_by
    /\ Status(r) \in {"PENDING", "REJECTED"}
       => purchase_requests[r].approved_by = NoUser

\* the Approval rows of request r with decision false
Rejections(table, r) ==
  {a \in BagToSet(table) : a.request = r /\ ~a.approved}

\* C30: in every reachable state a request is REJECTED if and only if it has
\* an Approval with decision false, and no request has more than one
\* Approval with decision false.
RejectedIffRejection ==
  \A r \in Requests :
    /\ Status(r) = "REJECTED" <=> Rejections(approvals, r) # {}
    /\ CountRows(approvals, Rejections(approvals, r)) <= 1

====
